---- MODULE Spec2Model ----
(***************************************************************************)
(* Model of mongo_printer.py: the gdb pretty-printers for mongo::StringMap,*)
(* mongo::Status, mongo::StringData and mongo::BSONObj.                    *)
(*                                                                         *)
(* The host debugger drives the printers serially: it constructs a printer *)
(* for one value of the debugged process, calls to_string, and, when the   *)
(* printer defines children, pulls that generator item by item.            *)
(*                                                                         *)
(* Python strings are modelled as sequences of tokens: the literal pieces  *)
(* of a format template are one token each, data are one token per         *)
(* character (or per identifier, where only the separators matter).        *)
(***************************************************************************)
EXTENDS Integers, Sequences, FiniteSets, TLC

\* ------------------------------------------------------------------ bounds
\* Largest _capacity of a StringMap backing array.
MaxCapacity == 3
\* Number of characters mapped at a StringData's _data pointer.
MaxStr == 3
\* Largest number of elements of an encoded BSON document.
MaxFields == 2

VARIABLES
    bson,       \* the module-level name `bson`: "module" or "None"
    printer,    \* class of the printer the host constructed last
    val,        \* self.val of that printer, with the target memory behind it
    result,     \* outcome of the last to_string call
    reads,      \* target-memory reads of the last BSONObj render
    decodes,    \* calls of bson.BSON.decode in the last render
    pc,         \* position of the children generator
    it,         \* children(): slot index of the pointer `it`
    yielded,    \* children the host has received in this render
    prevYielded,\* children of the previous, completed render of the same value
    renders     \* how many times the host has rendered the current value

vars == <<bson, printer, val, result, reads, decodes, pc, it, yielded, prevYielded,
          renders>>

NULL == "NULL"

\* ------------------------------------------------------------ Python helpers
Return(s) == [kind |-> "return", str |-> s, exc |-> "none"]
Raise(e) == [kind |-> "raise", str |-> <<>>, exc |-> e]
NoResult == [kind |-> "none", str |-> <<>>, exc |-> "none"]

\* s contains t as a contiguous run of tokens
Contains(s, t) ==
    \E i \in 0..(Len(s) - Len(t)) : SubSeq(s, i + 1, i + Len(t)) = t

\* str.split('::') : left-to-right, non-overlapping separators
RECURSIVE SplitFrom(_, _, _, _)
SplitFrom(s, i, cur, out) ==
    IF i > Len(s) THEN Append(out, cur)
    ELSE IF i < Len(s) /\ s[i] = ":" /\ s[i + 1] = ":"
         THEN SplitFrom(s, i + 2, <<>>, Append(out, cur))
         ELSE SplitFrom(s, i + 1, Append(cur, s[i]), out)

Split(s) == SplitFrom(s, 1, <<>>, <<>>)

\* --------------------------------------------------------------- StatusPrinter
OK == 0

\* str(code) of the enum-typed gdb.Value: the qualified enumerator name, or
\* the number when no enumerator has that value.
CodeStr(code) ==
    CASE code = 0 -> <<"mongo", ":", ":", "ErrorCodes", ":", ":", "OK">>
      [] code = 2 -> <<"mongo", ":", ":", "ErrorCodes", ":", ":", "BadValue">>
      [] code = 9 -> <<"mongo", ":", ":", "ErrorCodes", ":", ":", "FailedToParse">>
      [] OTHER -> <<ToString(code)>>

CodeValues == {0, 2, 9, 77}
ReasonValues == { <<>>, <<"b", "a", "d">>, <<"n", "s", ":", ":", "x">> }
LocationValues == {0, 17}

ErrorInfos == [code : CodeValues, reason : ReasonValues, location : LocationValues]
\* A Status: the _error pointer (0 is null) and the ErrorInfo it points to.
\* A record exists whenever the code, the reason or the location is set, so a
\* record with code OK is a value a healthy process holds, not only garbage.
StatusValues ==
    { [_error |-> 0, info |-> NULL] }
        \cup { [_error |-> 4096, info |-> e] : e \in ErrorInfos }

StatusPrinter_code(v) ==
    IF v._error = 0 THEN OK ELSE v.info.code

StatusFormat(v) ==
    LET code == Split(CodeStr(StatusPrinter_code(v)))[Len(Split(CodeStr(StatusPrinter_code(v))))]
        info == v.info
    IN  IF info.location # 0
        THEN <<"Status(">> \o code \o <<", ">> \o info.reason \o <<", ">>
                 \o <<ToString(info.location)>> \o <<")">>
        ELSE <<"Status(">> \o code \o <<", ">> \o info.reason \o <<")">>

StatusMarker == <<"Status::OK()">>

StatusPrinter_to_string_PointerTest(v) ==
    IF v._error = 0 THEN Return(StatusMarker) ELSE Return(StatusFormat(v))

StatusPrinter_to_string_KeepPrefix(v) ==
    IF StatusPrinter_code(v) = OK THEN Return(StatusMarker)
    ELSE Return(<<"Status(">> \o CodeStr(StatusPrinter_code(v)) \o <<", ">>
                    \o v.info.reason
                    \o (IF v.info.location # 0
                        THEN <<", ", ToString(v.info.location)>> ELSE <<>>)
                    \o <<")">>)

StatusPrinter_to_string(v) ==
    IF StatusPrinter_code(v) = OK THEN Return(StatusMarker)
    ELSE Return(StatusFormat(v))

\* ----------------------------------------------------------- StringDataPrinter
NUL == "\\0"
Chars == {"a", "b", NUL}

\* The characters mapped at _data; the page after them is unmapped.
StringMems == [1..MaxStr -> Chars]
StringDataValues == [_size : (-1)..(MaxStr + 1), mem : StringMems]

\* gdb.Value.lazy_string: the (length) descriptor handed to the host; -1 asks
\* the host to stop at the terminator.
LazyString(length) == [length |-> length]

StringDataPrinter_to_string_NoLength(v) == LazyString(-1)

StringDataPrinter_to_string(v) ==
    IF v._size = -1 THEN LazyString(-1) ELSE LazyString(v._size)

\* Index of the first NUL of mem at or after i; 0 when there is none.
RECURSIVE FirstNul(_, _)
FirstNul(mem, i) ==
    IF i > Len(mem) THEN 0
    ELSE IF mem[i] = NUL THEN i ELSE FirstNul(mem, i + 1)

\* The host fetching a lazy string from target memory.
FetchLazyString(mem, lazy) ==
    IF lazy.length = -1
    THEN IF FirstNul(mem, 1) = 0 THEN Raise("MemoryError")
         ELSE Return(SubSeq(mem, 1, FirstNul(mem, 1) - 1))
    ELSE IF lazy.length > Len(mem) THEN Raise("MemoryError")
         ELSE Return(SubSeq(mem, 1, lazy.length))

\* ------------------------------------------------------------ StringMapPrinter
\* One entry of _area._entries: the used flag and the stored pair (data
\* reinterpreted as value_type); an unused slot still holds some bytes.
Entries == [used : BOOLEAN, first : {"x", "y"}, second : {10, 20}]
Tables == UNION { [1..cap -> Entries] : cap \in 0..MaxCapacity }
SizeValues == {0, 1, 5}
StringMapValues ==
    { [_size |-> n, _capacity |-> Len(t), _entries |-> t] : n \in SizeValues, t \in Tables }

StringMapPrinter_to_string(v) ==
    Return(<<"StringMap<", "T", "> with ", ToString(v._size), " elems ">>)

\* end = it + cap, as a slot offset from _entries.px
StringMapPrinter_end(v) == v._capacity

\* `if not elt['used']: continue`
SlotSkipped_Never(elt) == FALSE

SlotSkipped(elt) == ~elt.used

\* The while loop from offset i up to the next yield: the offset of the first
\* slot not skipped, or end when the loop runs out.
RECURSIVE ScanFrom(_, _)
ScanFrom(v, i) ==
    IF i = StringMapPrinter_end(v) THEN i
    ELSE IF SlotSkipped(v._entries[i + 1]) THEN ScanFrom(v, i + 1)
         ELSE i

\* The two items yielded for the slot at offset i; `it` is already i + 1.
SlotChildren_ValueFirst(v, i) ==
    << [name |-> <<"v", ToString(i + 1)>>, value |-> v._entries[i + 1].second],
       [name |-> <<"k", ToString(i + 1)>>, value |-> v._entries[i + 1].first] >>

SlotChildren(v, i) ==
    << [name |-> <<"k", ToString(i + 1)>>, value |-> v._entries[i + 1].first],
       [name |-> <<"v", ToString(i + 1)>>, value |-> v._entries[i + 1].second] >>

\* -------------------------------------------------------------- BSONObjPrinter
\* Bytes are 0..255.  A 4-byte little-endian two's-complement integer:
Int32LE(n) ==
    << n % 256, (n \div 256) % 256, (n \div 65536) % 256, (n \div 16777216) % 256 >>

\* int at offset pos (0-based) of b, as `int *` dereference / struct.unpack("<i")
ReadInt32(b, pos) ==
    b[pos + 1] + 256 * b[pos + 2] + 65536 * b[pos + 3]
        + 16777216 * (IF b[pos + 4] >= 128 THEN b[pos + 4] - 256 ELSE b[pos + 4])

HexDigit(d) ==
    <<"0", "1", "2", "3", "4", "5", "6", "7", "8", "9", "a", "b", "c", "d", "e", "f">>[d + 1]

RECURSIVE HexDigits(_)
HexDigits(n) ==
    IF n < 16 THEN <<HexDigit(n)>> ELSE Append(HexDigits(n \div 16), HexDigit(n % 16))

\* hex(n) of Python 3, which takes the gdb.Value through __index__
Hex(n) == IF n < 0 THEN <<"-", "0x">> \o HexDigits(-n) ELSE <<"0x">> \o HexDigits(n)

\* The character of a byte, for the bytes that occur in field names and strings.
Chr(b) ==
    CASE b = 97 -> "a" [] b = 98 -> "b" [] b = 120 -> "x" [] OTHER -> ToString(b)

Chrs(bs) == [i \in 1..Len(bs) |-> Chr(bs[i])]

\* BSON element types the model decodes; every other tag is unknown to it and
\* only the tag UnknownTag, which no BSON version defines, is used otherwise.
BSONType == [int32 |-> 16, string |-> 2, unknown |-> 32]

FieldNames == { <<97>>, <<98>> }
FieldValues == { [t |-> "int32", v |-> <<1>>], [t |-> "string", v |-> <<120>>] }
Fields == { [key |-> k, t |-> x.t, v |-> x.v] : k \in FieldNames, x \in FieldValues }
Docs == UNION { [1..n -> Fields] : n \in 0..MaxFields }

EncodeField(f) ==
    IF f.t = "int32"
    THEN <<BSONType.int32>> \o f.key \o <<0>> \o Int32LE(f.v[1])
    ELSE <<BSONType.string>> \o f.key \o <<0>> \o Int32LE(Len(f.v) + 1) \o f.v \o <<0>>

RECURSIVE EncodeFields(_)
EncodeFields(d) ==
    IF d = <<>> THEN <<>> ELSE EncodeField(Head(d)) \o EncodeFields(Tail(d))

\* The bytes of a document in the binary document format.
Encode(d) == Int32LE(Len(EncodeFields(d)) + 5) \o EncodeFields(d) \o <<0>>

\* A document class that does not keep insertion order (a plain dict of the
\* Pythons this was written for): the new key lands in front.
DictSet_Unordered(d, f) ==
    <<f>> \o SelectSeq(d, LAMBDA g : g.key # f.key)

\* document_class[key] = value on an OrderedDict: a repeated key keeps its
\* first position and takes the new value.
DictSet(d, f) ==
    IF \E i \in 1..Len(d) : d[i].key = f.key
    THEN [i \in 1..Len(d) |-> IF d[i].key = f.key THEN f ELSE d[i]]
    ELSE Append(d, f)

DecodeOk(d) == [ok |-> TRUE, doc |-> d, cause |-> "none"]
DecodeError(c) == [ok |-> FALSE, doc |-> <<>>, cause |-> c]

\* Offset of the first 0 byte of b in pos..end-1, or end when there is none.
RECURSIVE IndexNul(_, _, _)
IndexNul(b, pos, end) ==
    IF pos >= end THEN end
    ELSE IF b[pos + 1] = 0 THEN pos ELSE IndexNul(b, pos + 1, end)

\* The elements of b in pos..end-1 (0-based offsets), into the OrderedDict d.
RECURSIVE DecodeElements(_, _, _, _)
DecodeElements(b, pos, end, d) ==
    IF pos >= end THEN DecodeOk(d)
    ELSE
      LET tag == b[pos + 1]
          nul == IndexNul(b, pos + 1, end)
          key == SubSeq(b, pos + 2, nul)
          at == nul + 1
      IN  IF nul = end THEN DecodeError("field name not terminated")
          ELSE IF tag = BSONType.int32
          THEN IF at + 4 > end THEN DecodeError("unpack requires 4 bytes")
               ELSE DecodeElements(b, at + 4, end,
                        DictSet(d, [key |-> key, t |-> "int32", v |-> <<ReadInt32(b, at)>>]))
          ELSE IF tag = BSONType.string
          THEN IF at + 4 > end THEN DecodeError("unpack requires 4 bytes")
               ELSE LET n == ReadInt32(b, at)
                    IN  IF n < 1 \/ end - (at + 4) < n
                        THEN DecodeError("invalid string length")
                        ELSE IF b[at + 4 + n] # 0
                        THEN DecodeError("invalid end of string")
                        ELSE DecodeElements(b, at + 4 + n, end,
                                 DictSet(d, [key |-> key, t |-> "string",
                                             v |-> SubSeq(b, at + 5, at + 3 + n)]))
          ELSE DecodeError("unknown BSON type")

\* bson.BSON.decode(buf) with document_class=OrderedDict: the length prefix
\* and the closing 0 byte are checked, then the elements are read in order.
\* Every failure is an exception the caller catches; cause is its message.
Decode(buf) ==
    IF Len(buf) < 4 THEN DecodeError("not enough data for a BSON document")
    ELSE IF Len(buf) < ReadInt32(buf, 0) THEN DecodeError("objsize too large")
    ELSE IF ReadInt32(buf, 0) # Len(buf) \/ buf[Len(buf)] # 0 THEN DecodeError("bad eoo")
    ELSE DecodeElements(buf, 4, Len(buf) - 1, <<>>)

\* repr of a decoded value
Repr(f) == IF f.t = "int32" THEN <<ToString(f.v[1])>> ELSE <<"'">> \o Chrs(f.v) \o <<"'">>

PformatItem(f) == <<"('">> \o Chrs(f.key) \o <<"', ">> \o Repr(f) \o <<")">>

RECURSIVE PformatItems(_)
PformatItems(d) ==
    IF d = <<>> THEN <<>>
    ELSE IF Len(d) = 1 THEN PformatItem(d[1])
    ELSE PformatItem(d[1]) \o <<", ">> \o PformatItems(Tail(d))

\* pprint.pformat of the OrderedDict
Pformat(d) ==
    IF d = <<>> THEN <<"OrderedDict()">>
    ELSE <<"OrderedDict([">> \o PformatItems(d) \o <<"])">>

\* 17*1024*1024
MaxPlausibleSize == 17 * 1024 * 1024

\* Target memory at _objdata: the bytes that are mapped there.  Documents as
\* encoded, and the damage a debugger meets: a length prefix that is a
\* sentinel, implausible or off by one, an unknown type tag, a lost
\* terminator, a mapping that ends early.
WithPrefix(m, n) == Int32LE(n) \o SubSeq(m, 5, Len(m))
WithByte(m, i, x) == [m EXCEPT ![i] = x]
PrefixValues(m) ==
    {-1, -2147483647, 0, 4, 5, MaxPlausibleSize, MaxPlausibleSize + 1, Len(m) - 1, Len(m) + 1}

BSONImages ==
    LET base == { Encode(d) : d \in Docs }
    IN  base
        \cup UNION { { WithPrefix(m, n) : n \in PrefixValues(m) } : m \in base }
        \cup { WithByte(m, 5, BSONType.unknown) : m \in { x \in base : Len(x) > 5 } }
        \cup { WithByte(m, Len(m), 1) : m \in base }
        \cup UNION { { SubSeq(m, 1, k) : k \in {0, 3, Len(m) - 1} } : m \in base }

\* A BSONObj: _ownedBuffer._buffer._holder.px, _objdata, and the memory there.
BSONObjValues == [holder : {0, 4096}, _objdata : {8192}, mem : BSONImages]

Ownership_Typo(v) == IF v.holder # 0 THEN "owned" ELSE "unonwed"

Ownership(v) == IF v.holder # 0 THEN "owned" ELSE "unowned"

\* `bson is not None`, bson being what the import guard left
CodecAvailable_Always(codec) == TRUE

CodecAvailable(codec) == codec # "None"

\* size < 5 or size > 17*1024*1024
Implausible(size) == size < 5 \/ size > MaxPlausibleSize

\* The local `size` after line 97: a str when the hex branch was taken, the
\* integer otherwise.
SizeLocal(size) ==
    IF Implausible(size) THEN [isStr |-> TRUE, int |-> 0, text |-> Hex(size)]
    ELSE [isStr |-> FALSE, int |-> size, text |-> <<ToString(size)>>]

\* inferior.read_memory(ptr, size): a str length is refused before any read
\* (the length is converted with int(), and int('0x..') raises ValueError), a
\* length beyond the mapping fails in the target with gdb.MemoryError.
ReadMemory(v, sz) ==
    IF sz.isStr THEN [exc |-> "ValueError", buf |-> <<>>, reads |-> <<>>]
    ELSE IF sz.int > Len(v.mem)
    THEN [exc |-> "MemoryError", buf |-> <<>>, reads |-> <<[addr |-> v._objdata, len |-> sz.int]>>]
    ELSE [exc |-> "none", buf |-> SubSeq(v.mem, 1, sz.int),
          reads |-> <<[addr |-> v._objdata, len |-> sz.int]>>]

Summary(v, sz) ==
    <<Ownership(v), " BSONObj ">> \o sz.text \o <<" bytes @ ">> \o Hex(v._objdata)

\* to_string, with what it did on the way: [result, reads, decodes].
BSONObjPrinter_to_string(v, codec) ==
    LET prefixRead == <<[addr |-> v._objdata, len |-> 4]>>
    IN  IF Len(v.mem) < 4
        THEN [result |-> Raise("MemoryError"), reads |-> prefixRead, decodes |-> 0]
        ELSE
          LET sz == SizeLocal(ReadInt32(v.mem, 0))
          IN  IF ~sz.isStr /\ sz.int = 5
              THEN [result |-> Return(<<Ownership(v), " empty BSONObj @ ">> \o Hex(v._objdata)),
                    reads |-> prefixRead, decodes |-> 0]
              ELSE IF CodecAvailable(codec)
              THEN LET rd == ReadMemory(v, sz)
                   IN  IF rd.exc # "none"
                       THEN [result |-> Raise(rd.exc), reads |-> prefixRead \o rd.reads,
                             decodes |-> 0]
                       ELSE IF Decode(rd.buf).ok
                       THEN [result |-> Return(Summary(v, sz) \o <<": ">>
                                                   \o Pformat(Decode(rd.buf).doc)),
                             reads |-> prefixRead \o rd.reads, decodes |-> 1]
                       ELSE [result |-> Return(Summary(v, sz) \o <<": error decoding (">>
                                                   \o <<Decode(rd.buf).cause>> \o <<")">>),
                             reads |-> prefixRead \o rd.reads, decodes |-> 1]
              ELSE [result |-> Return(Summary(v, sz)), reads |-> prefixRead, decodes |-> 0]

\* --------------------------------------------------------------------- actions
Init ==
    /\ bson \in {"module", "None"}
    /\ printer = "none"
    /\ val = [none |-> TRUE]
    /\ result = NoResult
    /\ reads = <<>>
    /\ decodes = 0
    /\ pc = "idle"
    /\ it = 0
    /\ yielded = <<>>
    /\ prevYielded = <<>>
    /\ renders = 0

Status_to_string ==
    \E v \in StatusValues :
        /\ printer = "none"
        /\ printer' = "Status"
        /\ val' = v
        /\ result' = StatusPrinter_to_string(v)
        /\ reads' = <<>>
        /\ decodes' = 0
        /\ pc' = "idle"
        /\ it' = 0
        /\ yielded' = <<>>
        /\ prevYielded' = <<>>
        /\ renders' = 1
        /\ UNCHANGED bson

StringData_to_string ==
    \E v \in StringDataValues :
        /\ printer = "none"
        /\ printer' = "StringData"
        /\ val' = v
        /\ result' = FetchLazyString(v.mem, StringDataPrinter_to_string(v))
        /\ reads' = <<>>
        /\ decodes' = 0
        /\ pc' = "idle"
        /\ it' = 0
        /\ yielded' = <<>>
        /\ prevYielded' = <<>>
        /\ renders' = 1
        /\ UNCHANGED bson

\* The host constructs a StringMapPrinter, takes the summary line and creates
\* the children generator; no generator code has run yet.
StringMap_to_string ==
    \E v \in StringMapValues :
        /\ printer = "none"
        /\ printer' = "StringMap"
        /\ val' = v
        /\ result' = StringMapPrinter_to_string(v)
        /\ reads' = <<>>
        /\ decodes' = 0
        /\ pc' = "start"
        /\ it' = 0
        /\ yielded' = <<>>
        /\ prevYielded' = <<>>
        /\ renders' = 1
        /\ UNCHANGED bson

\* next() on the generator, resumed at the top of the loop: runs to the yield
\* of a key, or to the end of the loop (StopIteration).
StringMap_children_next ==
    /\ printer = "StringMap"
    /\ pc \in {"start", "loop"}
    /\ LET j == ScanFrom(val, it)
       IN  IF j = StringMapPrinter_end(val)
           THEN /\ it' = j
                /\ pc' = "done"
                /\ yielded' = yielded
           ELSE /\ it' = j + 1
                /\ pc' = "value"
                /\ yielded' = Append(yielded, SlotChildren(val, j)[1])
    /\ UNCHANGED <<bson, printer, val, result, reads, decodes, prevYielded, renders>>

\* next() on the generator, resumed after the yield of a key: yields the value.
StringMap_children_value ==
    /\ printer = "StringMap"
    /\ pc = "value"
    /\ yielded' = Append(yielded, SlotChildren(val, it - 1)[2])
    /\ pc' = "loop"
    /\ UNCHANGED <<bson, printer, val, result, reads, decodes, it, prevYielded, renders>>

\* The host renders the same, unmutated value again: a fresh printer and a
\* fresh generator over the same memory.
StringMap_rerender ==
    /\ printer = "StringMap"
    /\ pc = "done"
    /\ renders = 1
    /\ result' = StringMapPrinter_to_string(val)
    /\ prevYielded' = yielded
    /\ yielded' = <<>>
    /\ it' = 0
    /\ pc' = "start"
    /\ renders' = 2
    /\ UNCHANGED <<bson, printer, val, reads, decodes>>

\* The host constructs a BSONObjPrinter and calls to_string; the class has no
\* children method, so the host shows no children.
BSONObj_to_string ==
    \E v \in BSONObjValues :
        /\ printer = "none"
        /\ printer' = "BSONObj"
        /\ val' = v
        /\ result' = BSONObjPrinter_to_string(v, bson).result
        /\ reads' = BSONObjPrinter_to_string(v, bson).reads
        /\ decodes' = BSONObjPrinter_to_string(v, bson).decodes
        /\ pc' = "idle"
        /\ it' = 0
        /\ yielded' = <<>>
        /\ prevYielded' = <<>>
        /\ renders' = 1
        /\ UNCHANGED bson

\* The render is over and its printer is garbage: the host is ready to render
\* the next value.
Discard ==
    /\ printer # "none"
    /\ printer' = "none"
    /\ val' = [none |-> TRUE]
    /\ result' = NoResult
    /\ reads' = <<>>
    /\ decodes' = 0
    /\ pc' = "idle"
    /\ it' = 0
    /\ yielded' = <<>>
    /\ prevYielded' = <<>>
    /\ renders' = 0
    /\ UNCHANGED bson

Next ==
    \/ Status_to_string
    \/ StringData_to_string
    \/ StringMap_to_string
    \/ StringMap_children_next
    \/ StringMap_children_value
    \/ StringMap_rerender
    \/ BSONObj_to_string
    \/ Discard

Spec == Init /\ [][Next]_vars

\* ====================================================================== claims
\* What the claims speak of, read off the rendered value itself.
IsBSON == printer = "BSONObj"
HasPrefix == IsBSON /\ Len(val.mem) >= 4
Prefix == ReadInt32(val.mem, 0)
OutsideEnvelope == HasPrefix /\ (Prefix < 5 \/ Prefix > 17825792)
OwnershipText == IF val.holder = 0 THEN "unowned" ELSE "owned"
AddressText == Hex(val._objdata)
LengthText == IF Prefix < 5 \/ Prefix > 17825792 THEN Hex(Prefix) ELSE <<ToString(Prefix)>>
ByteCountSummary == <<OwnershipText, " BSONObj ">> \o LengthText \o <<" bytes @ ">> \o AddressText
\* Only the 4-byte length prefix was read from the target.
OnlyPrefixRead == reads = <<[addr |-> val._objdata, len |-> 4]>>

\* C1: a document whose length prefix is below 5 or above 17,825,792 renders,
\* codec or no codec, by returning a string with the length in hexadecimal,
\* without reading the body, without a decode and with no children.
C1_ImplausibleLengthRendersHex ==
    OutsideEnvelope =>
        /\ result.kind = "return"
        /\ Contains(result.str, Hex(Prefix))
        /\ OnlyPrefixRead
        /\ decodes = 0
        /\ yielded = <<>>

\* The used slots of the rendered table, as 1-based indexes into _entries.
UsedSlots == { i \in 1..val._capacity : val._entries[i].used }
MapDone == printer = "StringMap" /\ pc = "done"

\* C2: the number of (key, value) pairs children yields equals the number of
\* slots whose used flag is true, whatever _size reports.
C2_PairCountEqualsUsedSlots ==
    MapDone => Len(yielded) = 2 * Cardinality(UsedSlots)

C2_Witness ==
    /\ MapDone
    /\ val._capacity = 3
    /\ Cardinality(UsedSlots) = 2
    /\ val._size = 5
    /\ Len(yielded) = 4

\* C3 as stated: code = OK, _error null and the rendering 'Status::OK()' are
\* equivalent, so a non-null _error never renders as the success marker.
C3_NullIffMarker ==
    printer = "Status" =>
        /\ (StatusPrinter_code(val) = OK) <=> (val._error = 0)
        /\ (val._error = 0) <=> (result = Return(<<"Status::OK()">>))

\* C3 amended: the rendering is exactly 'Status::OK()' iff the computed code
\* is OK, that is iff _error is null or the record's code field is 0; a null
\* _error always renders as the marker.
C3_MarkerIffCodeOK ==
    printer = "Status" =>
        /\ (result = Return(<<"Status::OK()">>))
               <=> (IF val._error = 0 THEN TRUE ELSE val.info.code = 0)
        /\ val._error = 0 => result = Return(<<"Status::OK()">>)

C3_Witness ==
    /\ printer = "Status"
    /\ val._error # 0
    /\ val.info.code = 0
    /\ result = Return(<<"Status::OK()">>)

\* The bytes rendered are the encoding of a document d with at least one
\* field, and they were decoded.
WellFormedOf(d) == IsBSON /\ bson = "module" /\ d # <<>> /\ val.mem = Encode(d)
DistinctNames(d) == \A i, j \in 1..Len(d) : d[i].key = d[j].key => i = j
\* (key, formatted value) child pairs of d, in d's order
FieldChildren(d) == [i \in 1..Len(d) |-> <<Chrs(d[i].key), Repr(d[i])>>]

\* C4 as stated: a successful decode exposes each field as a (key, value)
\* child, in insertion order, and the summary includes the decoded content.
C4_FieldsAreChildren ==
    \A d \in Docs :
        WellFormedOf(d) /\ DistinctNames(d) =>
            /\ yielded = FieldChildren(d)
            /\ Contains(result.str, PformatItems(d))

\* C4 amended: a successful decode of a document with distinct field names
\* puts the fields, in insertion order, into the summary string after the
\* byte-count summary; the rendered value has no children.
C4_FieldsInSummaryOnly ==
    \A d \in Docs :
        WellFormedOf(d) /\ DistinctNames(d) =>
            /\ result = Return(ByteCountSummary \o <<": ", "OrderedDict([">>
                                   \o PformatItems(d) \o <<"])">>)
            /\ yielded = <<>>
            /\ decodes = 1

\* {a: 1, b: "x"} rendered: ('a', 1) before ('b', 'x')
C4_Witness ==
    /\ WellFormedOf(<< [key |-> <<97>>, t |-> "int32", v |-> <<1>>],
                       [key |-> <<98>>, t |-> "string", v |-> <<120>>] >>)
    /\ Contains(result.str, <<"('", "a", "', ", "1", ")", ", ",
                              "('", "b", "', ", "'", "x", "'", ")">>)
    /\ yielded = <<>>

\* C5: with the codec, a failed decode is rendered as '... error decoding
\* (<cause>)' and not propagated; the only failure that escapes a document
\* render is a failed read of target memory.
C5_OnlyReadFailuresEscape ==
    IsBSON /\ bson = "module" =>
        /\ decodes = 1 /\ ~Decode(SubSeq(val.mem, 1, Prefix)).ok =>
               result = Return(ByteCountSummary \o <<": error decoding (">>
                                   \o <<Decode(SubSeq(val.mem, 1, Prefix)).cause>> \o <<")">>)
        /\ result.kind = "raise" => result.exc = "MemoryError"

\* The pairs of the used slots in increasing slot index, each key followed by
\* its value, named after the slot the pointer has moved on to.
SlotOfRank(r) == CHOOSE i \in UsedSlots : Cardinality({ j \in UsedSlots : j <= i }) = r
ExpectedChildren ==
    [k \in 1..(2 * Cardinality(UsedSlots)) |->
        IF k % 2 = 1
        THEN [name |-> <<"k", ToString(SlotOfRank((k + 1) \div 2))>>,
              value |-> val._entries[SlotOfRank((k + 1) \div 2)].first]
        ELSE [name |-> <<"v", ToString(SlotOfRank(k \div 2))>>,
              value |-> val._entries[SlotOfRank(k \div 2)].second]]

\* C6: children walks slots 0..capacity-1 and yields the pairs of the used
\* slots in strictly increasing slot index, key then value; a second render of
\* the same unmutated table yields the same sequence.
C6_SlotOrderAndRepeatable ==
    printer = "StringMap" =>
        /\ Len(yielded) <= Len(ExpectedChildren)
        /\ yielded = SubSeq(ExpectedChildren, 1, Len(yielded))
        /\ pc = "done" => it = val._capacity /\ yielded = ExpectedChildren
        /\ pc = "done" /\ renders = 2 => yielded = prevYielded

C6_Witness ==
    /\ MapDone
    /\ renders = 2
    /\ val._capacity = 3
    /\ UsedSlots = {1, 3}
    /\ Len(yielded) = 4
    /\ yielded[2].name = <<"v", "1">>
    /\ yielded[3].name = <<"k", "3">>
    /\ yielded = prevYielded

\* C7: a length prefix of exactly 5 renders as '<ownership> empty BSONObj @
\* <address>', owned iff the holder is non-null, with no children, no read of
\* the body and no decode, codec or no codec.
C7_EmptyDocument ==
    HasPrefix /\ Prefix = 5 =>
        /\ result = Return(<<OwnershipText, " empty BSONObj @ ">> \o AddressText)
        /\ yielded = <<>>
        /\ OnlyPrefixRead
        /\ decodes = 0

C7_Witness ==
    /\ HasPrefix /\ Prefix = 5
    /\ bson = "module"
    /\ val.holder = 0
    /\ Len(val.mem) > 5
    /\ result = Return(<<"unowned", " empty BSONObj @ ", "0x", "2", "0", "0", "0">>)

\* The code of a non-OK result as it is to be shown: the enumerator without
\* its qualification, or the bare number.
ShownCode ==
    CASE val.info.code = 2 -> "BadValue"
      [] val.info.code = 9 -> "FailedToParse"
      [] OTHER -> ToString(val.info.code)
NotOK == printer = "Status" /\ val._error # 0 /\ val.info.code # 0

\* C8: a result with code # OK renders the code without its namespace
\* qualification, always the reason, and the location iff one is present:
\* 'Status(<code>, <reason>, <location>)' or 'Status(<code>, <reason>)'.
C8_NonOKFormat ==
    NotOK =>
        result = Return(<<"Status(", ShownCode, ", ">> \o val.info.reason
                            \o (IF val.info.location # 0
                                THEN <<", ", ToString(val.info.location)>> ELSE <<>>)
                            \o <<")">>)

C8_Witness ==
    /\ NotOK
    /\ result = Return(<<"Status(", "BadValue", ", ", "n", "s", ":", ":", "x", ", ", "17", ")">>)

\* C9: without the codec no render of a document ends in an error: every
\* length prefix other than 5 gives the byte-count summary '<ownership>
\* BSONObj <length> bytes @ <address>', with no field contents and no read of
\* the body.
C9_NoCodecByteCountSummary ==
    HasPrefix /\ bson = "None" =>
        /\ result.kind = "return"
        /\ Prefix # 5 => result = Return(ByteCountSummary)
        /\ OnlyPrefixRead
        /\ decodes = 0
        /\ yielded = <<>>

C9_Witness ==
    /\ HasPrefix /\ bson = "None"
    /\ Prefix = 21
    /\ Len(val.mem) = 21
    /\ result = Return(<<"owned", " BSONObj ", "21", " bytes @ ", "0x", "2", "0", "0", "0">>)

\* C10: with an explicit size N the rendered string is exactly the N
\* characters at the data pointer, terminators among them included; with the
\* sentinel size it ends at the first terminator.
C10_ExplicitLengthOrTerminator ==
    printer = "StringData" /\ result.kind = "return" =>
        IF val._size # -1
        THEN result.str = [i \in 1..val._size |-> val.mem[i]]
        ELSE /\ \A i \in 1..Len(result.str) : result.str[i] = val.mem[i] /\ val.mem[i] # NUL
             /\ val.mem[Len(result.str) + 1] = NUL

C10_Witness ==
    /\ printer = "StringData"
    /\ val._size = 3
    /\ val.mem = <<"a", NUL, "b">>
    /\ result = Return(<<"a", NUL, "b">>)

====
